---- MODULE Spec2Model ----
(***************************************************************************)
(* The distributed trial runner of twisted.trial._dist.disttrial:          *)
(* DistTrialRunner._run / runAsync, WorkerPool.start, StartedWorkerPool    *)
(* run / join and the per-worker driver _driveWorker, under the reactor's  *)
(* single-threaded cooperative scheduling.  One action is one run of the   *)
(* code between two suspension points (an await of a worker call).         *)
(***************************************************************************)
EXTENDS Integers, Sequences, FiniteSets, TLC

\* Bounds of the model.
MaxCases == 3
MaxWorkers == 2
MaxIter == 2

VARIABLES
    untilFailure,   \* the untilFailure argument of run / runAsync
    maxWorkers,     \* DistTrialRunner._maxWorkers
    testCases,      \* list(_iterateTests(suite)): the cases, identified 1..N
    pc,             \* position of the runAsync coroutine
    reactor,        \* "idle" | "running" | "stopped": reactor.run() of _run
    stopCalls,      \* number of reactor.stop() calls
    captured,       \* the nonlocal result of _run, set by capture
    outcome,        \* what _run gave its caller
    fatal,          \* the exception in flight in runAsync, "none" if none
    retval,         \* the pass whose DistReporter iterateWhile returned, 0 if none
    lock,           \* testDirLock: "free" | "held"
    lockAcquires,   \* number of times the directory lock was taken
    lockReleases,   \* number of testDirLock.unlock() calls
    testLog,        \* "none" | "open" | "closed"
    pool,           \* the StartedWorkerPool: "none" | "live" | "joined"
    workers,        \* StartedWorkerPool.workers (indices of the LocalWorkers)
    ampWorkers,     \* StartedWorkerPool.ampWorkers
    spawned,        \* number of spawnProcess calls that succeeded
    joinCalls,      \* number of StartedWorkerPool.join() calls
    exitCalls,      \* worker -> number of worker.exit() calls
    exiting,        \* position in workers of the worker whose exit() is awaited, 0 if none
    exitFailed,     \* the workers whose failed exit() join has logged
    iteration,      \* number of runTests calls made (countingCalls)
    cursor,         \* iter(testCases): index of the next case to hand out
    busy,           \* worker -> the case of its outstanding run call, 0 if none
    driver,         \* worker -> "idle" | "waiting" | "finished" | "error"
    calls,          \* the worker.run calls issued in this iteration, <<worker, case>>
    outcomes,       \* case -> how its worker.run call of this iteration ended
    result,         \* the DistReporter of the current iteration
    passes,         \* wasSuccessful() of each finalized iteration, in order
    stream          \* what was written to self._stream

vars == <<untilFailure, maxWorkers, testCases, pc, reactor, stopCalls, captured,
          outcome, fatal, retval, lock, lockAcquires, lockReleases, testLog, pool,
          workers, ampWorkers, spawned, joinCalls, exitCalls, exiting, exitFailed,
          iteration, cursor, busy, driver, calls, outcomes, result, passes, stream>>

inputVars == <<untilFailure, maxWorkers, testCases>>
reactorVars == <<reactor, stopCalls, captured, outcome>>
lockVars == <<lock, lockAcquires, lockReleases, testLog>>
poolVars == <<pool, workers, ampWorkers, spawned>>
joinVars == <<joinCalls, exitCalls, exiting, exitFailed>>
driveVars == <<cursor, busy, driver, calls>>

Min(a, b) == IF a < b THEN a ELSE b

Cases == 1..Len(testCases)

\* numWorkers without the cap at the number of cases.
numWorkersUncapped == maxWorkers

\* min(len(testCases), self._maxWorkers): WorkerPoolConfig.numWorkers
numWorkers == Min(Len(testCases), maxWorkers)

Workers == 0..(numWorkers - 1)

\* [LocalWorkerAMP() for x in range(numWorkers)], as a list of indices
Range(n) == [i \in 1..n |-> i - 1]

\* self._makeResult(): a brand new DistReporter
makeResult(n) ==
    [pass |-> n,
     failures |-> [c \in Cases |-> 0],
     reported |-> {},
     errors |-> 0,
     doneCalls |-> 0]

wasSuccessful(r) ==
    /\ \A c \in Cases : r.failures[c] = 0
    /\ r.reported = {}
    /\ r.errors = 0

\* A DistTrialRunner as trial builds it (the number of jobs is a positive
\* integer), about to run a suite of 0..MaxCases cases.
Init ==
    /\ untilFailure \in BOOLEAN
    /\ maxWorkers \in 1..MaxWorkers
    /\ testCases \in {[i \in 1..n |-> i] : n \in 0..MaxCases}
    /\ pc = "init"
    /\ reactor = "idle"
    /\ stopCalls = 0
    /\ captured = [kind |-> "unset"]
    /\ outcome = [kind |-> "none"]
    /\ fatal = "none"
    /\ retval = 0
    /\ lock = "free"
    /\ lockAcquires = 0
    /\ lockReleases = 0
    /\ testLog = "none"
    /\ pool = "none"
    /\ workers = <<>>
    /\ ampWorkers = <<>>
    /\ spawned = 0
    /\ joinCalls = 0
    /\ exitCalls = [w \in 0..(MaxWorkers - 1) |-> 0]
    /\ exiting = 0
    /\ exitFailed = {}
    /\ iteration = 0
    /\ cursor = 1
    /\ busy = [w \in 0..(MaxWorkers - 1) |-> 0]
    /\ driver = [w \in 0..(MaxWorkers - 1) |-> "idle"]
    /\ calls = <<>>
    /\ outcomes = <<>>
    /\ result = [pass |-> 0, failures |-> <<>>, reported |-> {}, errors |-> 0,
                 doneCalls |-> 0]
    /\ stream = <<>>
    /\ passes = <<>>

(***************************************************************************)
(* _driveWorker and the fan-out of StartedWorkerPool.run                   *)
(***************************************************************************)

\* nextCase with the iterator left where it was.
nextCaseNoAdvance(cur) ==
    IF cur <= Len(testCases)
    THEN [case |-> testCases[cur], cursor |-> cur]
    ELSE [case |-> 0, cursor |-> cur]

\* The for statement of _driveWorker taking the next case of the shared
\* iterator: the case popped (0 when the iterator is exhausted) and the
\* iterator's position afterwards.
nextCase(cur) ==
    IF cur <= Len(testCases)
    THEN [case |-> testCases[cur], cursor |-> cur + 1]
    ELSE [case |-> 0, cursor |-> cur]

\* driveWorker issuing the call for the next case without awaiting the one
\* it has just issued.
driveWorkerNoAwait(w, st) ==
    LET nx == nextCase(st.cursor)
        nx2 == nextCase(nx.cursor)
    IN
    IF nx.case = 0
    THEN [st EXCEPT !.busy[w] = 0, !.driver[w] = "finished"]
    ELSE IF nx2.case = 0
    THEN [st EXCEPT !.cursor = nx.cursor,
                    !.busy[w] = nx.case,
                    !.driver[w] = "waiting",
                    !.calls = Append(@, <<w, nx.case>>)]
    ELSE [st EXCEPT !.cursor = nx2.cursor,
                    !.busy[w] = nx2.case,
                    !.driver[w] = "waiting",
                    !.calls = Append(Append(@, <<w, nx.case>>), <<w, nx2.case>>)]

\* driveWorker leaving its loop after the first case it has run.
driveWorkerOneCaseEach(w, st) ==
    LET nx == nextCase(st.cursor) IN
    IF nx.case = 0 \/ \E k \in DOMAIN st.calls : st.calls[k][1] = w
    THEN [st EXCEPT !.busy[w] = 0, !.driver[w] = "finished"]
    ELSE [st EXCEPT !.cursor = nx.cursor,
                    !.busy[w] = nx.case,
                    !.driver[w] = "waiting",
                    !.calls = Append(@, <<w, nx.case>>)]

\* _driveWorker from the top of its for loop to its next suspension: pop a
\* case and issue worker.run(case, result), or leave the loop.
driveWorker(w, st) ==
    LET nx == nextCase(st.cursor) IN
    IF nx.case = 0
    THEN [st EXCEPT !.busy[w] = 0, !.driver[w] = "finished"]
    ELSE [st EXCEPT !.cursor = nx.cursor,
                    !.busy[w] = nx.case,
                    !.driver[w] = "waiting",
                    !.calls = Append(@, <<w, nx.case>>)]

\* parallel(void(workerAction(worker)) for worker in ...): one branch per
\* worker, started in list order, each running to its first suspension.
RECURSIVE parallel(_, _)
parallel(ws, st) ==
    IF ws = <<>> THEN st ELSE parallel(Tail(ws), driveWorker(Head(ws), st))

\* The fan-out has returned control to runTests once no branch is suspended.
fanOutDone(st) == \A w \in Workers : st.driver[w] # "waiting"

\* The end of the worker.run call for case c, as the worker side saw it.
advance(c, how) == outcomes' = [outcomes EXCEPT ![c] = how]

driveState == [cursor |-> cursor, busy |-> busy, driver |-> driver, calls |-> calls]

SetDrive(st) ==
    /\ cursor' = st.cursor
    /\ busy' = st.busy
    /\ driver' = st.driver
    /\ calls' = st.calls

(***************************************************************************)
(* _run and runAsync up to the start of the pool                          *)
(***************************************************************************)

\* Run without the announcement.
RunSilent ==
    /\ pc = "init"
    /\ pc' = "start"
    /\ UNCHANGED <<inputVars, reactorVars, fatal, retval, lockVars, poolVars,
                   joinVars, iteration, driveVars, outcomes, result, passes, stream>>

\* _run creates the coroutine, which runs at once: runAsync realizes the
\* cases, builds the pool configuration and announces the run.
Run ==
    /\ pc = "init"
    /\ stream' = Append(stream, [line |-> "Running", n |-> Len(testCases)])
    /\ pc' = "start"
    /\ UNCHANGED <<inputVars, reactorVars, fatal, retval, lockVars, poolVars,
                   joinVars, iteration, driveVars, outcomes, result, passes>>

\* WorkerPool.start: claim the directory and its lock, open the log, create
\* and spawn the workers, return the StartedWorkerPool.
start ==
    /\ pc = "start"
    /\ lock = "free"
    /\ lock' = "held"
    /\ lockAcquires' = lockAcquires + 1
    /\ testLog' = "open"
    /\ spawned' = numWorkers
    /\ workers' = Range(numWorkers)
    /\ ampWorkers' = Range(numWorkers)
    /\ pool' = "live"
    /\ pc' = "iterate"
    /\ UNCHANGED <<inputVars, reactorVars, fatal, retval, lockReleases, joinVars,
                   iteration, driveVars, outcomes, result, passes, stream>>

\* _unusedTestDirectory raises: nothing was claimed.
startClaimFails ==
    /\ pc = "start"
    /\ fatal' = "claim"
    /\ pc' = "raised"
    /\ UNCHANGED <<inputVars, reactorVars, retval, lockVars, poolVars, joinVars,
                   iteration, driveVars, outcomes, result, passes, stream>>

\* startSpawnFails with the failure swallowed and the workers spawned so
\* far returned as the pool.
startSpawnFailsPartialPool ==
    /\ pc = "start"
    /\ lock = "free"
    /\ \E i \in Workers :
        /\ spawned' = i
        /\ workers' = Range(i)
        /\ ampWorkers' = Range(i)
    /\ lock' = "held"
    /\ lockAcquires' = lockAcquires + 1
    /\ testLog' = "open"
    /\ pool' = "live"
    /\ fatal' = "spawn"
    /\ pc' = "iterate"
    /\ UNCHANGED <<inputVars, reactorVars, retval, lockReleases, joinVars,
                   iteration, driveVars, outcomes, result, passes, stream>>

\* spawnProcess raises for the worker of index i, after i successful spawns:
\* the lock is taken and the log is open, no StartedWorkerPool is built.
startSpawnFails ==
    /\ pc = "start"
    /\ lock = "free"
    /\ \E i \in Workers :
        /\ spawned' = i
    /\ lock' = "held"
    /\ lockAcquires' = lockAcquires + 1
    /\ testLog' = "open"
    /\ fatal' = "spawn"
    /\ pc' = "raised"
    /\ UNCHANGED <<inputVars, reactorVars, retval, lockReleases, pool, workers,
                   ampWorkers, joinVars, iteration, driveVars, outcomes, result, passes, stream>>

(***************************************************************************)
(* runTests: one iteration                                                 *)
(***************************************************************************)

\* shouldContinue without the flag, and without the result.
shouldContinueIgnoresFlag(uf, r) == wasSuccessful(r)

shouldContinueIgnoresResult(uf, r) == uf

shouldContinue(uf, r) == uf /\ wasSuccessful(r)

\* countingCalls(f): the argument f is called with, the number of calls
\* made before.
countingCalls == iteration

\* iterateWhile(predicate, action) after an action: call the action again
\* while the predicate holds of its result, else return the result.
iterateWhile(again) == IF again THEN "iterate" ELSE "join"

\* runTests going on without awaiting pool.run.
runTestsNoAwait ==
    /\ pc = "iterate"
    /\ iteration < MaxIter
    /\ iteration' = iteration + 1
    /\ stream' = IF untilFailure
                 THEN Append(stream, [line |-> "Test Pass", n |-> countingCalls + 1])
                 ELSE stream
    /\ result' = makeResult(iteration + 1)
    /\ outcomes' = [c \in Cases |-> "unrun"]
    /\ LET fresh == [cursor |-> 1,
                     busy |-> [w \in DOMAIN busy |-> 0],
                     driver |-> [w \in DOMAIN driver |-> "idle"],
                     calls |-> <<>>]
           st == parallel(ampWorkers, fresh)
       IN /\ SetDrive(st)
          /\ pc' = "fanoutDone"
    /\ UNCHANGED <<inputVars, reactorVars, fatal, retval, lockVars, poolVars,
                   joinVars, passes>>

\* runTests spawning the workers again for its iteration.
runTestsRespawns ==
    /\ pc = "iterate"
    /\ iteration < MaxIter
    /\ iteration' = iteration + 1
    /\ stream' = IF untilFailure
                 THEN Append(stream, [line |-> "Test Pass", n |-> countingCalls + 1])
                 ELSE stream
    /\ result' = makeResult(iteration + 1)
    /\ outcomes' = [c \in Cases |-> "unrun"]
    /\ LET fresh == [cursor |-> 1,
                     busy |-> [w \in DOMAIN busy |-> 0],
                     driver |-> [w \in DOMAIN driver |-> "idle"],
                     calls |-> <<>>]
           st == parallel(ampWorkers, fresh)
       IN /\ SetDrive(st)
          /\ pc' = IF fanOutDone(st) THEN "fanoutDone" ELSE "running"
    /\ spawned' = spawned + Len(ampWorkers)
    /\ UNCHANGED <<inputVars, reactorVars, fatal, retval, lockVars, pool, workers,
                   ampWorkers, joinVars, passes>>

\* runTests with the iterator of the iteration before.
runTestsKeepsIterator ==
    /\ pc = "iterate"
    /\ iteration < MaxIter
    /\ iteration' = iteration + 1
    /\ stream' = IF untilFailure
                 THEN Append(stream, [line |-> "Test Pass", n |-> countingCalls + 1])
                 ELSE stream
    /\ result' = makeResult(iteration + 1)
    /\ outcomes' = [c \in Cases |-> "unrun"]
    /\ LET fresh == [cursor |-> cursor,
                     busy |-> [w \in DOMAIN busy |-> 0],
                     driver |-> [w \in DOMAIN driver |-> "idle"],
                     calls |-> <<>>]
           st == parallel(ampWorkers, fresh)
       IN /\ SetDrive(st)
          /\ pc' = IF fanOutDone(st) THEN "fanoutDone" ELSE "running"
    /\ UNCHANGED <<inputVars, reactorVars, fatal, retval, lockVars, poolVars,
                   joinVars, passes>>

\* runTests writing the progress line whatever the flag.
runTestsAlwaysReports ==
    /\ pc = "iterate"
    /\ iteration < MaxIter
    /\ iteration' = iteration + 1
    /\ stream' = Append(stream, [line |-> "Test Pass", n |-> countingCalls + 1])
    /\ result' = makeResult(iteration + 1)
    /\ outcomes' = [c \in Cases |-> "unrun"]
    /\ LET fresh == [cursor |-> 1,
                     busy |-> [w \in DOMAIN busy |-> 0],
                     driver |-> [w \in DOMAIN driver |-> "idle"],
                     calls |-> <<>>]
           st == parallel(ampWorkers, fresh)
       IN /\ SetDrive(st)
          /\ pc' = IF fanOutDone(st) THEN "fanoutDone" ELSE "running"
    /\ UNCHANGED <<inputVars, reactorVars, fatal, retval, lockVars, poolVars,
                   joinVars, passes>>

\* runTests(pool, testCases, n) up to the await of pool.run: the progress
\* line, a new result, a new iterator, and the start of every driver.  The
\* model stops after MaxIter iterations.
runTests ==
    /\ pc = "iterate"
    /\ iteration < MaxIter
    /\ iteration' = iteration + 1
    /\ stream' = IF untilFailure
                 THEN Append(stream, [line |-> "Test Pass", n |-> countingCalls + 1])
                 ELSE stream
    /\ result' = makeResult(iteration + 1)
    /\ outcomes' = [c \in Cases |-> "unrun"]
    /\ LET fresh == [cursor |-> 1,
                     busy |-> [w \in DOMAIN busy |-> 0],
                     driver |-> [w \in DOMAIN driver |-> "idle"],
                     calls |-> <<>>]
           st == parallel(ampWorkers, fresh)
       IN /\ SetDrive(st)
          /\ pc' = IF fanOutDone(st) THEN "fanoutDone" ELSE "running"
    /\ UNCHANGED <<inputVars, reactorVars, fatal, retval, lockVars, poolVars,
                   joinVars, passes>>

\* taskExcept recording nothing.
taskExceptDrops(r, c) == r

\* The except clause of task: the failure of worker.run is recorded against
\* the case.
taskExcept(r, c) == [r EXCEPT !.failures[c] = @ + 1]

\* worker.run(case, result) completes: the worker has reported the case into
\* the result (as a success, or as a failure of the test), and the driver
\* goes round its loop.
runReturns(w, failed) ==
    /\ pc = "running"
    /\ reactor = "running"
    /\ driver[w] = "waiting"
    /\ result' = IF failed
                 THEN [result EXCEPT !.reported = @ \cup {busy[w]}]
                 ELSE result
    /\ advance(busy[w], "returned")
    /\ LET st == driveWorker(w, driveState)
       IN /\ SetDrive(st)
          /\ pc' = IF fanOutDone(st) THEN "fanoutDone" ELSE "running"
    /\ UNCHANGED <<inputVars, reactorVars, fatal, retval, lockVars, poolVars,
                   joinVars, iteration, passes, stream>>

\* worker.run(case, result) fails and addFailure raises in the except clause
\* of task: the exception leaves the driver, which handles no further case.
runRaisesSinkRaises(w) ==
    /\ pc = "running"
    /\ reactor = "running"
    /\ driver[w] = "waiting"
    /\ advance(busy[w], "raised")
    /\ LET st == [driveState EXCEPT !.busy[w] = 0, !.driver[w] = "error"]
       IN /\ SetDrive(st)
          /\ pc' = IF fanOutDone(st) THEN "fanoutDone" ELSE "running"
    /\ UNCHANGED <<inputVars, reactorVars, fatal, retval, lockVars, poolVars,
                   joinVars, iteration, result, passes, stream>>

\* worker.run(case, result) fails: task records the failure against the case
\* and the driver goes round its loop.
runRaises(w) ==
    /\ pc = "running"
    /\ reactor = "running"
    /\ driver[w] = "waiting"
    /\ result' = taskExcept(result, busy[w])
    /\ advance(busy[w], "raised")
    /\ LET st == driveWorker(w, driveState)
       IN /\ SetDrive(st)
          /\ pc' = IF fanOutDone(st) THEN "fanoutDone" ELSE "running"
    /\ UNCHANGED <<inputVars, reactorVars, fatal, retval, lockVars, poolVars,
                   joinVars, iteration, passes, stream>>

\* The await of pool.run raises when a branch ended with an exception.
poolRunRaised == \E w \in Workers : driver[w] = "error"

\* runTestsExcept without the except clause.
runTestsExceptPropagates(r) ==
    [result |-> r, raise |-> IF poolRunRaised THEN "runner" ELSE "none"]

\* The try statement of runTests around pool.run: an exception of pool.run is
\* recorded as an error of the "<runTests>" holder and goes no further.
runTestsExcept(r) ==
    IF poolRunRaised
    THEN [result |-> [r EXCEPT !.errors = @ + 1], raise |-> "none"]
    ELSE [result |-> r, raise |-> "none"]

\* self.writeResults(result)
writeResults(r) == [r EXCEPT !.doneCalls = @ + 1]

\* runTests from the return of pool.run, and the loop of iterateWhile: record
\* a runner error, report the result, then run again or return the result.
runTestsFinish ==
    /\ pc = "fanoutDone"
    /\ LET t == runTestsExcept(result)
           r == writeResults(t.result)
       IN IF t.raise # "none"
          THEN /\ result' = t.result
               /\ fatal' = t.raise
               /\ pc' = "join"
               /\ UNCHANGED <<passes, retval>>
          ELSE /\ result' = r
               /\ passes' = Append(passes, wasSuccessful(r))
               /\ pc' = iterateWhile(shouldContinue(untilFailure, r))
               /\ retval' = IF shouldContinue(untilFailure, r) THEN retval ELSE r.pass
               /\ fatal' = fatal
    /\ UNCHANGED <<inputVars, reactorVars, lockVars, poolVars, joinVars,
                   iteration, driveVars, outcomes, stream>>

\* runTestsFinishRaises with no finally clause around the loop.
runTestsFinishRaisesNoFinally ==
    /\ pc = "fanoutDone"
    /\ result' = writeResults(runTestsExcept(result).result)
    /\ fatal' = "loop"
    /\ pc' = "raised"
    /\ UNCHANGED <<inputVars, reactorVars, retval, lockVars, poolVars, joinVars,
                   iteration, driveVars, outcomes, passes, stream>>

\* result.done() raises in writeResults: the exception leaves runTests and
\* iterateWhile, and the finally clause of runAsync runs.
runTestsFinishRaises ==
    /\ pc = "fanoutDone"
    /\ result' = writeResults(runTestsExcept(result).result)
    /\ fatal' = "loop"
    /\ pc' = "join"
    /\ UNCHANGED <<inputVars, reactorVars, retval, lockVars, poolVars, joinVars,
                   iteration, driveVars, outcomes, passes, stream>>

(***************************************************************************)
(* StartedWorkerPool.join and the finally clause of runAsync               *)
(***************************************************************************)

\* The statements of join after its for loop; runAsync then returns the
\* result of the loop or re-raises its exception.
joinCleanup ==
    /\ workers' = <<>>
    /\ ampWorkers' = <<>>
    /\ testLog' = "closed"
    /\ lock' = "free"
    /\ lockReleases' = lockReleases + 1
    /\ pool' = "joined"
    /\ exiting' = 0
    /\ exitCalls' = exitCalls
    /\ pc' = "returned"
    /\ UNCHANGED <<lockAcquires, spawned>>

\* The for loop of join at the worker of position k of self.workers: await
\* its exit(), or leave the loop when the list is exhausted.
joinLoop(k) ==
    IF k <= Len(workers)
    THEN /\ exiting' = k
         /\ exitCalls' = [exitCalls EXCEPT ![workers[k]] = @ + 1]
         /\ pc' = "joining"
         /\ UNCHANGED <<lockVars, poolVars>>
    ELSE joinCleanup

\* The finally clause of runAsync: await startedPool.join(), up to the first
\* suspension of join.
join ==
    /\ pc = "join"
    /\ joinCalls' = joinCalls + 1
    /\ joinLoop(1)
    /\ UNCHANGED <<inputVars, reactorVars, fatal, retval, exitFailed, iteration,
                   driveVars, outcomes, result, passes, stream>>

\* worker.exit() is acknowledged: join goes on with the next worker.
exitReturns ==
    /\ pc = "joining"
    /\ reactor = "running"
    /\ joinLoop(exiting + 1)
    /\ UNCHANGED <<inputVars, reactorVars, fatal, retval, joinCalls, exitFailed,
                   iteration, driveVars, outcomes, result, passes, stream>>

\* exitExcept leaving the for loop.
exitExceptLeavesLoop(k) == Len(workers) + 1

\* What join does with an exception of worker.exit(): the position of the
\* worker it goes on with.
exitExcept(k) == k + 1

\* worker.exit() fails: join logs the failure and goes on with the next worker.
exitRaises ==
    /\ pc = "joining"
    /\ reactor = "running"
    /\ exitFailed' = exitFailed \cup {workers[exiting]}
    /\ joinLoop(exitExcept(exiting))
    /\ UNCHANGED <<inputVars, reactorVars, fatal, retval, joinCalls, iteration,
                   driveVars, outcomes, result, passes, stream>>

(***************************************************************************)
(* _run: the callbacks of the Deferred and the reactor                     *)
(***************************************************************************)

\* fired with the exception lost.
firedDropsFailure == [kind |-> "DistReporter", pass |-> retval]

\* What the Deferred of runAsync fires with.
fired ==
    IF fatal # "none"
    THEN [kind |-> "Failure", error |-> fatal]
    ELSE [kind |-> "DistReporter", pass |-> retval]

\* callbacks without the callback that stops the reactor.
callbacksNoStop ==
    /\ pc \in {"returned", "raised"}
    /\ captured' = fired
    /\ pc' = "done"
    /\ UNCHANGED <<inputVars, reactor, stopCalls, outcome, fatal, retval, lockVars,
                   poolVars, joinVars, iteration, driveVars, outcomes, result,
                   passes, stream>>

\* runAsync has returned or raised: capture stores what the Deferred fired
\* with and the next callback stops the reactor.
callbacks ==
    /\ pc \in {"returned", "raised"}
    /\ captured' = fired
    /\ stopCalls' = stopCalls + 1
    /\ pc' = "done"
    /\ UNCHANGED <<inputVars, reactor, outcome, fatal, retval, lockVars, poolVars,
                   joinVars, iteration, driveVars, outcomes, result, passes, stream>>

\* The coroutine is suspended in an await, or has ended.
suspended == pc \in {"running", "joining", "done"}

\* _run calls reactor.run(), once the coroutine started by fromCoroutine
\* has run to its first suspension or to its end.
reactorRun ==
    /\ reactor = "idle"
    /\ suspended
    /\ reactor' = "running"
    /\ UNCHANGED <<inputVars, pc, stopCalls, captured, outcome, fatal, retval,
                   lockVars, poolVars, joinVars, iteration, driveVars, outcomes, result,
                   passes, stream>>

\* The reactor runs until it is told to stop.
reactorStops == stopCalls > 0

\* reactor.run() returns and _run raises the captured failure or returns
\* the captured result.
runExit ==
    /\ reactor = "running"
    /\ pc = "done"
    /\ reactorStops
    /\ reactor' = "stopped"
    /\ outcome' = IF captured.kind = "Failure"
                  THEN [kind |-> "raise", error |-> captured.error]
                  ELSE [kind |-> "return", pass |-> captured.pass]
    /\ UNCHANGED <<inputVars, pc, stopCalls, captured, fatal, retval, lockVars,
                   poolVars, joinVars, iteration, driveVars, outcomes, result, passes, stream>>

(***************************************************************************)
(* Specifications                                                          *)
(***************************************************************************)

\* The session with a working result sink and a working pool start: worker
\* calls and exit requests may fail.
Next ==
    \/ Run
    \/ start
    \/ runTests
    \/ \E w \in Workers : \E failed \in BOOLEAN : runReturns(w, failed)
    \/ \E w \in Workers : runRaises(w)
    \/ runTestsFinish
    \/ join
    \/ exitReturns
    \/ exitRaises
    \/ callbacks
    \/ reactorRun
    \/ runExit

Spec == Init /\ [][Next]_vars

\* The same with the failures of the collaborators: the directory claim or
\* a spawn fails, addFailure raises, done raises.
NextFault ==
    \/ Next
    \/ startClaimFails
    \/ startSpawnFails
    \/ \E w \in Workers : runRaisesSinkRaises(w)
    \/ runTestsFinishRaises

SpecFault == Init /\ [][NextFault]_vars

\* The session of Spec in which the reactor goes on delivering what it has to
\* deliver: a step that can be taken is eventually taken, so every worker.run
\* call and every exit request eventually completes or fails.
SpecLive == Init /\ [][Next]_vars /\ WF_vars(Next)

(***************************************************************************)
(* Properties                                                              *)
(***************************************************************************)

\* The number of worker.run calls of this iteration that were for case c.
CallsFor(c) == Cardinality({k \in DOMAIN calls : calls[k][2] = c})

\* The aggregator of the current iteration has been finalized.
finalized == result.doneCalls > 0

\* The loop of iterateWhile has been left, by a return or by an exception.
loopLeft == pc \in {"join", "joining", "returned", "done"}

\* runAsync has returned or raised.
runAsyncEnded == pc \in {"returned", "raised", "done"}

C2_JoinExactlyOnce ==
    /\ joinCalls <= 1
    /\ pool = "none" => joinCalls = 0
    /\ (runAsyncEnded /\ pool # "none") => joinCalls = 1

\* An exception left the loop and the pool was joined once.
C2_Witness ==
    /\ pc = "done"
    /\ fatal = "loop"
    /\ pool = "joined"
    /\ joinCalls = 1

\* C3: no worker is asked to exit twice; when join has completed, whatever
\* set of exit requests failed, every worker of the pool was asked to exit
\* exactly once, the worker lists are empty, the log is closed, the lock is
\* released, and no exit failure is the exception of runAsync.
C3_JoinToleratesExitFailures ==
    /\ \A w \in DOMAIN exitCalls : exitCalls[w] <= 1
    /\ exitFailed # {} => fatal \in {"none", "loop"}
    /\ pool = "joined" =>
        /\ \A w \in Workers : exitCalls[w] = 1
        /\ workers = <<>>
        /\ ampWorkers = <<>>
        /\ testLog = "closed"
        /\ lock = "free"
        /\ lockReleases = 1

\* The exit of worker 0 failed, worker 1 was still asked, join completed.
C3_Witness ==
    /\ pool = "joined"
    /\ exitFailed = {0}
    /\ exitCalls[1] = 1
    /\ lock = "free"

C5_OneIterationWithoutFlag ==
    ~untilFailure =>
        /\ iteration <= 1
        /\ loopLeft => (iteration = 1 /\ Len(passes) = 1 /\ retval = 1)

\* The single iteration was successful, and the session still ended.
C5_Witness ==
    /\ ~untilFailure
    /\ pc = "done"
    /\ passes = <<TRUE>>
    /\ Len(testCases) > 0

\* C6: with untilFailure every finalized iteration but the last was
\* successful; after a successful iteration another one is started; when the
\* loop is left the last iteration was unsuccessful, one progress line per
\* iteration was written and the result returned is the last iteration's.
C6_IterateUntilFailure ==
    untilFailure =>
        /\ \A i \in 1..(iteration - 1) : i <= Len(passes) /\ passes[i]
        /\ (Len(passes) = iteration /\ iteration > 0 /\ passes[iteration])
               => pc = "iterate"
        /\ loopLeft =>
            /\ Len(passes) = iteration
            /\ ~passes[iteration]
            /\ retval = iteration
            /\ result.pass = iteration
            /\ Len(stream) = iteration + 1
        /\ outcome.kind # "none" => outcome = [kind |-> "return", pass |-> iteration]

\* The second iteration was the first unsuccessful one and its result came back.
C6_Witness ==
    /\ untilFailure
    /\ passes = <<TRUE, FALSE>>
    /\ outcome = [kind |-> "return", pass |-> 2]
    /\ stream[Len(stream)] = [line |-> "Test Pass", n |-> 2]

\* C7: when the iteration is finalized, done was called once and the result
\* holds one runner error if an exception left the fan-out and none
\* otherwise; that exception is never the exception of runAsync.
C7_RunnerErrorRecorded ==
    /\ result.doneCalls <= 1
    /\ fatal # "runner"
    /\ (poolRunRaised /\ pc # "running" /\ pc # "fanoutDone") =>
        /\ result.doneCalls = 1
        /\ result.errors = 1
    /\ ~poolRunRaised => result.errors = 0

\* A driver ended with an exception; the iteration was finalized with the error.
C7_Witness ==
    /\ poolRunRaised
    /\ pc = "join"
    /\ fatal = "none"
    /\ result.errors = 1
    /\ result.doneCalls = 1
    /\ passes = <<FALSE>>

\* C8: the lock is held exactly while a StartedWorkerPool exists that has not
\* finished join; it is taken and released at most once.
C8_LockHeldIffPoolLive ==
    /\ (lock = "held") <=> (pool = "live")
    /\ lockAcquires <= 1
    /\ lockReleases <= 1
    /\ lockReleases = 1 => pool = "joined"

\* C9: after a failed directory claim or a failed spawn there is no pool, no
\* iteration, no worker.run call and no join, and the session ends by raising
\* that error.
C9_StartupFailureIsFatal ==
    fatal \in {"claim", "spawn"} =>
        /\ pool = "none"
        /\ workers = <<>>
        /\ ampWorkers = <<>>
        /\ iteration = 0
        /\ calls = <<>>
        /\ joinCalls = 0
        /\ pc \in {"raised", "done"}
        /\ captured.kind # "unset" => captured = [kind |-> "Failure", error |-> fatal]
        /\ outcome.kind # "none" => outcome = [kind |-> "raise", error |-> fatal]

\* The second spawn failed and the caller got that error.
C9_Witness ==
    /\ fatal = "spawn"
    /\ spawned = 1
    /\ outcome = [kind |-> "raise", error |-> "spawn"]

\* C10: reactor.stop() is called at most once, and only when runAsync has
\* ended, with a started pool joined and no worker call outstanding; _run then
\* raises the exception of runAsync if there is one, and otherwise returns the
\* finalized result of the last iteration run.
C10_SynchronousBridge ==
    /\ stopCalls <= 1
    /\ stopCalls = 1 =>
        /\ pc = "done"
        /\ pool \in {"none", "joined"}
        /\ pool = "joined" => joinCalls = 1
        /\ \A w \in DOMAIN busy : busy[w] = 0
        /\ exiting = 0
    /\ outcome.kind # "none" =>
        /\ stopCalls = 1
        /\ reactor = "stopped"
        /\ fatal # "none" => outcome = [kind |-> "raise", error |-> fatal]
        /\ fatal = "none" =>
            /\ outcome = [kind |-> "return", pass |-> iteration]
            /\ result.pass = iteration
            /\ result.doneCalls = 1

\* An exception left the loop, the pool was joined, then _run raised it.
C10_Witness ==
    /\ outcome = [kind |-> "raise", error |-> "loop"]
    /\ pool = "joined"
    /\ stopCalls = 1

\* The lines of the stream that are of the given kind, in order.
LinesOf(kind) == SelectSeq(stream, LAMBDA l : l.line = kind)

\* C11: with no test case no worker is spawned and the pool has none, no
\* worker.run call is issued, the iteration never waits on a worker, and its
\* finalized result is successful and holds no failure and no error.
C11_NoCasesNoWorkers ==
    Len(testCases) = 0 =>
        /\ spawned = 0
        /\ workers = <<>>
        /\ ampWorkers = <<>>
        /\ calls = <<>>
        /\ pc # "running"
        /\ \A w \in DOMAIN busy : busy[w] = 0
        /\ finalized =>
            /\ wasSuccessful(result)
            /\ result.reported = {}
            /\ result.errors = 0

\* No case, two workers allowed: the iteration was finalized with the pool
\* live and before the reactor was entered.
C11_Witness ==
    /\ Len(testCases) = 0
    /\ maxWorkers = 2
    /\ pool = "live"
    /\ finalized
    /\ result.doneCalls = 1
    /\ reactor = "idle"

C13_AnnouncedOnce ==
    /\ pc = "init" => (stream = <<>> /\ iteration = 0 /\ calls = <<>> /\ pool = "none")
    /\ pc # "init" =>
        /\ Len(LinesOf("Running")) = 1
        /\ stream[1].line = "Running"

\* A second iteration is running and the stream holds one announcement.
C13_Witness ==
    /\ iteration = 2
    /\ pc = "running"
    /\ Len(LinesOf("Running")) = 1
    /\ Len(stream) = 3

\* The worker.run calls issued to worker w in this iteration that have not
\* ended, as positions in calls.
Outstanding(w) ==
    {k \in DOMAIN calls : calls[k][1] = w /\ outcomes[calls[k][2]] = "unrun"}

\* No worker.run call is outstanding and no driver is suspended.
quiet ==
    \A w \in DOMAIN busy :
        busy[w] = 0 /\ driver[w] # "waiting" /\ Outstanding(w) = {}

\* C14: a worker never has two worker.run calls outstanding; it has one
\* exactly while its driver is suspended; and none is outstanding outside the
\* fan-out, in particular when the next iteration starts.
C14_OneCallPerWorker ==
    /\ \A w \in DOMAIN busy :
        /\ Cardinality(Outstanding(w)) <= 1
        /\ (Outstanding(w) # {}) <=> (driver[w] = "waiting")
    /\ pc # "running" => quiet

\* In a second iteration worker 0 has its second call outstanding, issued
\* after its first had ended, while worker 1 is still at its first.
C14_Witness ==
    /\ iteration = 2
    /\ calls = << <<0, 1>>, <<1, 2>>, <<0, 3>> >>
    /\ outcomes[1] = "raised"
    /\ outcomes[2] = "unrun"
    /\ outcomes[3] = "unrun"

\* C15: a step that leaves the result finalized leaves every driver ended and
\* no worker.run call outstanding, also when a driver ended with an exception;
\* and a finalized result gets no further entry.
C15_FinalizedAfterAllDrivers ==
    [][/\ finalized' => (quiet' /\ \A w \in Workers : driver'[w] \in {"finished", "error"})
       /\ (finalized /\ result'.pass = result.pass) => result' = result]_vars

\* Driver 0 ended with an exception at case 1, driver 1 went on and ran the
\* other cases, then the result was finalized.
C15_Witness ==
    /\ finalized
    /\ driver[0] = "error"
    /\ driver[1] = "finished"
    /\ calls = << <<0, 1>>, <<1, 2>>, <<1, 3>> >>
    /\ result.errors = 1

\* C16: with a started pool the number of processes spawned is
\* min(N, maxWorkers), before and after every iteration; no iteration runs
\* without a started pool; and until the loop is left the pool keeps its
\* workers and none was asked to exit.
C16_WorkersPersist ==
    /\ pool # "none" => spawned = Min(Len(testCases), maxWorkers)
    /\ pool = "none" => iteration = 0
    /\ pc \in {"iterate", "running", "fanoutDone"} =>
        /\ pool = "live"
        /\ workers = Range(Min(Len(testCases), maxWorkers))
        /\ ampWorkers = workers
        /\ joinCalls = 0
        /\ \A w \in DOMAIN exitCalls : exitCalls[w] = 0

\* The second iteration runs on the two workers spawned by start.
C16_Witness ==
    /\ iteration = 2
    /\ pc = "running"
    /\ spawned = 2
    /\ ampWorkers = <<0, 1>>
    /\ Len(testCases) = 3

C18_JoinAfterFanOut ==
    [][/\ joinCalls' > 0 => (quiet' /\ (finalized' \/ fatal' # "none"))
       /\ (\E w \in DOMAIN exitCalls : exitCalls'[w] > 0) => joinCalls' > 0
       /\ joinCalls > 0 => (calls' = calls /\ iteration' = iteration)]_vars

\* The exit of worker 0 is awaited after a second, finalized iteration.
C18_Witness ==
    /\ pc = "joining"
    /\ exiting = 1
    /\ exitCalls[0] = 1
    /\ iteration = 2
    /\ finalized
    /\ quiet

\* The session has ended: the single iteration is finalized, every worker was
\* asked to exit, the pool is joined, the lock is released, the reactor was
\* stopped and _run has given its caller the result.
sessionComplete ==
    /\ iteration = 1
    /\ finalized
    /\ \A w \in Workers : exitCalls[w] = 1
    /\ pool = "joined"
    /\ lock = "free"
    /\ stopCalls = 1
    /\ reactor = "stopped"
    /\ outcome = [kind |-> "return", pass |-> 1]

\* C19: without untilFailure, and with every worker.run call and exit
\* request eventually completing or failing, the session eventually ends.
C19_SessionCompletes == (~untilFailure) ~> sessionComplete

\* The session ended although a worker.run call and both exit requests failed.
C19_Witness ==
    /\ ~untilFailure
    /\ sessionComplete
    /\ exitFailed = {0, 1}
    /\ outcomes[1] = "raised"

\* C20: the k-th worker.run call of an iteration is for the k-th case of the
\* sequence, whichever worker it goes to, the iterator stands right after the
\* cases handed out, and every iteration of a non-empty suite hands out the
\* first case first.
C20_ClaimedInSequenceOrder ==
    /\ \A k \in DOMAIN calls : k <= Len(testCases) /\ calls[k][2] = testCases[k]
    /\ cursor = Len(calls) + 1
    /\ (iteration > 0 /\ Len(testCases) > 0) =>
        (Len(calls) >= numWorkers /\ calls[1][2] = testCases[1])

\* In the second iteration the third call went to worker 0 and is for case 3.
C20_Witness ==
    /\ iteration = 2
    /\ calls = << <<0, 1>>, <<1, 2>>, <<0, 3>> >>
    /\ cursor = 4

====
